---- MODULE Spec2Model ----
(***************************************************************************)
(* Query resolution of the video-statistics Telegram bot                   *)
(* (src/database.py, src/bot.py).                                          *)
(*                                                                         *)
(* A message text is a sequence of tokens.  A token is one whitespace      *)
(* character, one punctuation character, one run of decimal digits, one    *)
(* creator identifier or one word.  The regular expressions of             *)
(* src/database.py are evaluated over that sequence; every per-word fact   *)
(* they need (which stems a word contains, how it starts and ends) is a    *)
(* table over the vocabulary below.  Words are written in Latin            *)
(* transliteration of the Russian words of the source:                     *)
(*   skolko=сколько  na=на  vsego=всего  video=видео  vyrosli=выросли      *)
(*   prirost=прирост  prosmotrov=просмотров  laykov=лайков                 *)
(*   kommentariev=комментариев  bolshe=больше  bolee=более                 *)
(*   raznyh=разных  za=за  v=в  u=у  kreatora=креатора  nabrali=набрали    *)
(*   summa=сумма  obshchee=общее  rasskazhi=расскажи  anekdot=анекдот      *)
(*   goda=года  poyavilos=появилось  zhalob=жалоб                         *)
(*   months: yanvarya/yanvar/yanvare = января/январь/январе, ...           *)
(***************************************************************************)
EXTENDS Integers, Sequences, FiniteSets, TLC

(***************************************************************************)
(* Tokens                                                                  *)
(***************************************************************************)

\* k: kind; s: the characters of a word or identifier; v, d: the value and
\* the number of digits of a digit run (for an identifier: of its trailing
\* digit run).
Tok(k, s, v, d) == [k |-> k, s |-> s, v |-> v, d |-> d]

W(s) == Tok("word", s, 0, 0)

N(v, d) == Tok("num", "", v, d)

SP == Tok("space", " ", 0, 0)

\* A whitespace character other than U+0020 (a tab), matched by \s and by "."
TAB == Tok("tab", "TAB", 0, 0)

QM == Tok("punct", "?", 0, 0)

\* A bare 32-hex-character identifier (it ends with the digits "63").
HEX32 == Tok("hex32", "aca1061a9d324ecf8c3fa2bb32d7be63", 63, 2)

\* The canonical 8-4-4-4-12 form (it ends with the digits "63").
UUID36 == Tok("uuid", "aca1061a-9d32-4ecf-8c3f-a2bb32d7be63", 63, 2)

IsWs(t) == t.k \in {"space", "tab"}

Min(S) == CHOOSE x \in S : \A y \in S : x <= y

RECURSIVE Pow10(_)
Pow10(n) == IF n = 0 THEN 1 ELSE 10 * Pow10(n - 1)

(***************************************************************************)
(* str.lower() on the vocabulary                                           *)
(***************************************************************************)

LowerWord(s) ==
  CASE s = "Skolko" -> "skolko"
    [] s = "Na" -> "na"
    [] s = "Rasskazhi" -> "rasskazhi"
    [] s = "Bolshe" -> "bolshe"
    [] OTHER -> s

Lower(text) == [i \in DOMAIN text |-> [text[i] EXCEPT !.s = LowerWord(@)]]

(***************************************************************************)
(* MONTHS_RU and the month alternations of the two date patterns           *)
(***************************************************************************)

Genitive ==
  <<"yanvarya", "fevralya", "marta", "aprelya", "maya", "iyunya", "iyulya",
    "avgusta", "sentyabrya", "oktyabrya", "noyabrya", "dekabrya">>

Nominative ==
  <<"yanvar", "fevral", "mart", "aprel", "may", "iyun", "iyul",
    "avgust", "sentyabr", "oktyabr", "noyabr", "dekabr">>

Prepositional ==
  <<"yanvare", "fevrale", "marte", "aprele", "mae", "iyune", "iyule",
    "avguste", "sentyabre", "oktyabre", "noyabre", "dekabre">>

\* MONTHS_RU.get(name): the month number, 0 for None.  The table holds the
\* genitive and nominative of all twelve months and the prepositional of
\* May to December only.
MONTHS_RU(name) ==
  IF \E m \in 1..12 : Genitive[m] = name
    THEN CHOOSE m \in 1..12 : Genitive[m] = name
  ELSE IF \E m \in 1..12 : Nominative[m] = name
    THEN CHOOSE m \in 1..12 : Nominative[m] = name
  ELSE IF \E m \in 5..12 : Prepositional[m] = name
    THEN CHOOSE m \in 5..12 : Prepositional[m] = name
  ELSE 0

\* The alternation of the single-date pattern: the twelve genitives.
DateMonthForms == {Genitive[m] : m \in 1..12}

\* The alternation of the month-range pattern: three forms of every month.
RangeMonthForms ==
  {Genitive[m] : m \in 1..12} \cup {Nominative[m] : m \in 1..12}
    \cup {Prepositional[m] : m \in 1..12}

(***************************************************************************)
(* datetime(year, month, day)                                              *)
(***************************************************************************)

IsLeap(y) == (y % 4 = 0 /\ y % 100 # 0) \/ y % 400 = 0

DaysInMonth(y, m) ==
  IF m = 2 THEN (IF IsLeap(y) THEN 29 ELSE 28)
  ELSE IF m \in {4, 6, 9, 11} THEN 30 ELSE 31

\* The constructor raises ValueError outside these ranges.
ValidDate(y, m, d) ==
  /\ y >= 1 /\ y <= 9999
  /\ m >= 1 /\ m <= 12
  /\ d >= 1 /\ d <= DaysInMonth(y, m)

NoDate == <<0, 0, 0>>

(***************************************************************************)
(* Per-word facts the patterns read                                        *)
(***************************************************************************)

\* The stems of the patterns that occur inside a (lower-case) word.
StemsOf(s) ==
  CASE s = "skolko" -> {"skolko"}
    [] s = "summa" -> {"summa"}
    [] s = "obshchee" -> {"obshchee"}
    [] s = "vyrosli" -> {"vyros"}
    [] s = "prirost" -> {"prirost"}
    [] s = "prosmotrov" -> {"prosmotr"}
    [] s = "laykov" -> {"layk"}
    [] s = "kommentariev" -> {"komment"}
    [] s = "zhalob" -> {"zhalob"}
    [] s = "raznyh" -> {"razn"}
    [] s = "video" -> {"video"}
    [] OTHER -> {}

\* re.search(stem, text_lower)
Search(tl, stem) ==
  \E i \in DOMAIN tl : tl[i].k = "word" /\ stem \in StemsOf(tl[i].s)

\* The word ends with one of (za|v|na|opublikovan|vyshedsh): the words
\* prosmotrov, laykov and kommentariev end with the letter "v".
EndsWithRangeCue(s) ==
  s \in {"za", "v", "na", "opublikovan", "vyshedsh",
         "prosmotrov", "laykov", "kommentariev"}

\* The word ends with one of (bolshe|bolee).
EndsWithMoreCue(s) == s \in {"bolshe", "bolee"}

\* The word starts with one of (prosmotr|layk|komment|zhalob).
StartsWithMetric(s) == s \in {"prosmotrov", "laykov", "kommentariev", "zhalob"}

\* The last index <= j of a token that is not whitespace (0: none).
RECURSIVE PrevNonWs(_, _)
PrevNonWs(text, j) ==
  IF j < 1 THEN 0
  ELSE IF IsWs(text[j]) THEN PrevNonWs(text, j - 1) ELSE j

\* The first index >= j of a token that is not whitespace (Len + 1: none).
RECURSIVE NextNonWs(_, _)
NextNonWs(text, j) ==
  IF j > Len(text) THEN j
  ELSE IF IsWs(text[j]) THEN NextNonWs(text, j + 1) ELSE j

\* The first index >= j of a token outside [0-9\s] (Len + 1: none).
RECURSIVE RunEnd(_, _)
RunEnd(text, j) ==
  IF j > Len(text) THEN j
  ELSE IF IsWs(text[j]) \/ text[j].k = "num" THEN RunEnd(text, j + 1) ELSE j

(***************************************************************************)
(* extract_uuid                                                            *)
(***************************************************************************)

\* Python's None for an identifier; every match is a non-empty string.
NoId == ""

extract_uuid(text) ==
  LET canon == {i \in DOMAIN text : text[i].k = "uuid"}
      bare == {i \in DOMAIN text : text[i].k = "hex32"}
  IN IF canon # {} THEN text[Min(canon)].s
     ELSE IF bare # {} THEN text[Min(bare)].s
     ELSE NoId

(***************************************************************************)
(* extract_threshold                                                       *)
(***************************************************************************)

\* (bolshe|bolee)\s+([0-9\s]+)\s*(prosmotr|layk|komment|zhalob) matched with
\* its comparison cue at token i: at least two characters of [0-9\s], the
\* first of them whitespace, lie between the cue and the metric noun.
ThresholdMatchAt(text, i) ==
  LET j == RunEnd(text, i + 1)
  IN /\ text[i].k = "word" /\ EndsWithMoreCue(LowerWord(text[i].s))
     /\ i + 1 <= Len(text) /\ IsWs(text[i + 1])
     /\ j >= i + 3
     /\ j <= Len(text)
     /\ text[j].k = "word" /\ StartsWithMetric(LowerWord(text[j].s))

\* match.group(2): \s+ is greedy and takes the leading whitespace; when only
\* whitespace stands between cue and noun it gives one character back.
ThresholdGroup2(text, i) ==
  LET j == RunEnd(text, i + 1)
      f == NextNonWs(text, i + 1)
  IN IF f >= j THEN <<text[j - 1]>> ELSE SubSeq(text, f, j - 1)

\* str.replace(" ", ""): only U+0020 is removed.
RemoveSpaces(seq) == SelectSeq(seq, LAMBDA t : t.k # "space")

RECURSIVE DigitsValue(_)
DigitsValue(seq) ==
  IF seq = <<>> THEN 0
  ELSE LET last == seq[Len(seq)]
       IN DigitsValue(SubSeq(seq, 1, Len(seq) - 1)) * Pow10(last.d) + last.v

\* int(num_str): surrounding whitespace is stripped; an empty string or
\* whitespace between digits raises ValueError.
IntOf(seq) ==
  LET digs == {i \in DOMAIN seq : seq[i].k = "num"}
  IN IF digs = {} THEN [st |-> "raise", v |-> 0]
     ELSE LET lo == Min(digs)
              hi == CHOOSE x \in digs : \A y \in digs : y <= x
          IN IF \E i \in lo..hi : seq[i].k # "num"
               THEN [st |-> "raise", v |-> 0]
               ELSE [st |-> "ok", v |-> DigitsValue(SubSeq(seq, lo, hi))]

\* st: "none" (return None), "ok" (return v) or "raise" (ValueError)
extract_threshold(text) ==
  LET hits == {i \in DOMAIN text : ThresholdMatchAt(text, i)}
  IN IF hits = {} THEN [st |-> "none", v |-> 0]
     ELSE IntOf(RemoveSpaces(ThresholdGroup2(text, Min(hits))))

(***************************************************************************)
(* The two date extractions of parse_with_patterns                         *)
(***************************************************************************)

\* (\d{4})? after the whitespace that follows a month name: the first four
\* digits of a digit run of at least four, else the default year.
DefaultYear == 2025

YearAfter(tl, m) ==
  LET q == NextNonWs(tl, m + 1)
  IN IF q <= Len(tl) /\ tl[q].k = "num" /\ tl[q].d >= 4
       THEN tl[q].v \div Pow10(tl[q].d - 4)
       ELSE DefaultYear

\* (\d{1,2})\s+(<genitive>)\s+(\d{4})? matched with its month name at token m
DateMatchAt(tl, m) ==
  /\ tl[m].k = "word" /\ tl[m].s \in DateMonthForms
  /\ m + 1 <= Len(tl) /\ IsWs(tl[m + 1])
  /\ m - 1 >= 1 /\ IsWs(tl[m - 1])
  /\ LET p == PrevNonWs(tl, m - 1) IN p >= 1 /\ tl[p].d > 0

\* st: "none" (single_date is None), "ok" or "raise" (ValueError of datetime)
SingleDate(tl) ==
  LET hits == {m \in DOMAIN tl : DateMatchAt(tl, m)}
  IN IF hits = {} THEN [st |-> "none", from |-> NoDate, to |-> NoDate]
     ELSE LET m == Min(hits)
              day == tl[PrevNonWs(tl, m - 1)].v % 100
              month == MONTHS_RU(tl[m].s)
              year == YearAfter(tl, m)
          IN IF month = 0 THEN [st |-> "none", from |-> NoDate, to |-> NoDate]
             ELSE IF ValidDate(year, month, day) /\ ValidDate(year, month, day + 1)
               THEN [st |-> "ok", from |-> <<year, month, day>>,
                     to |-> <<year, month, day + 1>>]
             ELSE [st |-> "raise", from |-> NoDate, to |-> NoDate]

\* st: "ok", "nodates" (the pair (None, None)) or "raise"
get_month_range(month_name, year) ==
  LET month == MONTHS_RU(LowerWord(month_name))
  IN IF month = 0 THEN [st |-> "nodates", from |-> NoDate, to |-> NoDate]
     ELSE IF ~ValidDate(year, month, 1)
       THEN [st |-> "raise", from |-> NoDate, to |-> NoDate]
     ELSE IF month = 12
       THEN (IF ValidDate(year + 1, 1, 1)
               THEN [st |-> "ok", from |-> <<year, month, 1>>,
                     to |-> <<year + 1, 1, 1>>]
               ELSE [st |-> "raise", from |-> NoDate, to |-> NoDate])
     ELSE [st |-> "ok", from |-> <<year, month, 1>>, to |-> <<year, month + 1, 1>>]

\* (za|v|na|opublikovan|vyshedsh)\s*(<form>)\s+(\d{4})? matched with its
\* month name at token m
RangeMatchAt(tl, m) ==
  /\ tl[m].k = "word" /\ tl[m].s \in RangeMonthForms
  /\ m + 1 <= Len(tl) /\ IsWs(tl[m + 1])
  /\ LET p == PrevNonWs(tl, m - 1)
     IN p >= 1 /\ tl[p].k = "word" /\ EndsWithRangeCue(tl[p].s)

\* st: "none" (month_range is None), else the result of get_month_range
MonthRange(tl) ==
  LET hits == {m \in DOMAIN tl : RangeMatchAt(tl, m)}
  IN IF hits = {} THEN [st |-> "none", from |-> NoDate, to |-> NoDate]
     ELSE get_month_range(tl[Min(hits)].s, YearAfter(tl, Min(hits)))

(***************************************************************************)
(* The values parse_with_patterns, parse_with_ai and parse_query return    *)
(***************************************************************************)

\* A query string: the f-string template that produced it and the values
\* formatted into it (dates as strftime('%Y-%m-%d') prints them: year, month,
\* day).  tpl = "RAW": a string taken from the AI response, in raw.
\* tpl = "None": Python's None.  tpl = "RAISE": an exception left the function.
Query(tpl, creator, from, to, metric, threshold) ==
  [tpl |-> tpl, creator |-> creator, from |-> from, to |-> to,
   metric |-> metric, threshold |-> threshold, raw |-> ""]

None == Query("None", NoId, NoDate, NoDate, "", 0)

Raise == Query("RAISE", NoId, NoDate, NoDate, "", 0)

RawQuery(str) == [None EXCEPT !.tpl = "RAW", !.raw = str]

\* The templates, named by what they select.
DeltaSum(metric, d) == Query("SUM(delta) FROM video_snapshots WHERE day", NoId, d.from, d.to, metric, 0)

DistinctDelta(metric, d) == Query("COUNT(DISTINCT video_id) FROM video_snapshots WHERE day AND delta > 0", NoId, d.from, d.to, metric, 0)

CountCreatorThreshold(creator, metric, n) == Query("COUNT(*) FROM videos WHERE creator AND metric > n", creator, NoDate, NoDate, metric, n)

CountCreatorDateThreshold(creator, r, metric, n) == Query("COUNT(*) FROM videos WHERE creator AND range AND metric > n", creator, r.from, r.to, metric, n)

SumCreatorDate(creator, r, metric) == Query("SUM(metric) FROM videos WHERE creator AND range", creator, r.from, r.to, metric, 0)

CountThreshold(metric, n) == Query("COUNT(*) FROM videos WHERE metric > n", NoId, NoDate, NoDate, metric, n)

SumDate(r, metric) == Query("SUM(metric) FROM videos WHERE range", NoId, r.from, r.to, metric, 0)

CountCreatorDate(creator, r) == Query("COUNT(*) FROM videos WHERE creator AND range", creator, r.from, r.to, "", 0)

CountAll == Query("COUNT(*) FROM videos", NoId, NoDate, NoDate, "", 0)

SumAll(metric) == Query("SUM(metric) FROM videos", NoId, NoDate, NoDate, metric, 0)

(***************************************************************************)
(* parse_with_patterns                                                     *)
(***************************************************************************)

\* re.search(r"skolko.*razn.*video", text_lower); "." matches every token of
\* the vocabulary (there is no line break in it).
HasStemAt(tl, i, stem) == tl[i].k = "word" /\ stem \in StemsOf(tl[i].s)

SearchDistinctVideos(tl) ==
  \E i \in DOMAIN tl :
    /\ HasStemAt(tl, i, "skolko")
    /\ \E j \in (i + 1)..Len(tl) :
         /\ HasStemAt(tl, j, "razn")
         /\ \E k \in (j + 1)..Len(tl) : HasStemAt(tl, k, "video")

\* re.search(r"skolko vsego video", text_lower): single spaces between words
SearchTotalVideos(tl) ==
  \E i \in DOMAIN tl :
    /\ i + 4 <= Len(tl)
    /\ tl[i] = W("skolko") /\ tl[i + 1] = SP /\ tl[i + 2] = W("vsego")
    /\ tl[i + 3] = SP /\ tl[i + 4] = W("video")

\* re.search(r"(skolko|summa|obshchee)", text_lower)
SearchTotalCue(tl) ==
  Search(tl, "skolko") \/ Search(tl, "summa") \/ Search(tl, "obshchee")

\* re.search(r"(vyros|prirost|delta)", text_lower)
SearchGrowthCue(tl) ==
  Search(tl, "vyros") \/ Search(tl, "prirost") \/ Search(tl, "delta")

\* Lines 265-332: the rules in the order of the source.  creator_id is
\* truthy when it is not None, threshold when it is neither None nor 0,
\* month_range whenever the month pattern matched (the pair (None, None) is
\* truthy, and formatting its members raises AttributeError).
Rules(tl, creator_id, threshold, single_date, month_range) ==
  LET views == Search(tl, "prosmotr")
      likes == Search(tl, "layk")
      hasCreator == creator_id # NoId
      hasThreshold == threshold.st = "ok" /\ threshold.v # 0
      hasDate == single_date.st = "ok"
      hasRange == month_range.st # "none"
      n == threshold.v
  IN
  IF SearchGrowthCue(tl) /\ hasDate /\ views THEN DeltaSum("views", single_date)
  ELSE IF SearchGrowthCue(tl) /\ hasDate /\ likes THEN DeltaSum("likes", single_date)
  ELSE IF SearchDistinctVideos(tl) /\ hasDate /\ views THEN DistinctDelta("views", single_date)
  ELSE IF SearchDistinctVideos(tl) /\ hasDate /\ likes THEN DistinctDelta("likes", single_date)
  ELSE IF hasCreator /\ hasThreshold /\ views THEN CountCreatorThreshold(creator_id, "views", n)
  ELSE IF hasCreator /\ hasThreshold /\ likes THEN CountCreatorThreshold(creator_id, "likes", n)
  ELSE IF hasCreator /\ hasRange /\ hasThreshold /\ month_range.st = "nodates" THEN Raise
  ELSE IF hasCreator /\ hasRange /\ hasThreshold /\ views
    THEN CountCreatorDateThreshold(creator_id, month_range, "views", n)
  ELSE IF hasCreator /\ hasRange /\ hasThreshold /\ likes
    THEN CountCreatorDateThreshold(creator_id, month_range, "likes", n)
  ELSE IF hasCreator /\ hasRange /\ month_range.st = "nodates" THEN Raise
  ELSE IF hasCreator /\ hasRange /\ views THEN SumCreatorDate(creator_id, month_range, "views")
  ELSE IF hasCreator /\ hasRange /\ likes THEN SumCreatorDate(creator_id, month_range, "likes")
  ELSE IF hasThreshold /\ views THEN CountThreshold("views", n)
  ELSE IF hasThreshold /\ likes THEN CountThreshold("likes", n)
  ELSE IF hasRange /\ month_range.st = "nodates" THEN Raise
  ELSE IF hasRange /\ views THEN SumDate(month_range, "views")
  ELSE IF hasRange /\ likes THEN SumDate(month_range, "likes")
  ELSE IF hasCreator /\ hasRange THEN CountCreatorDate(creator_id, month_range)
  ELSE IF SearchTotalVideos(tl) THEN CountAll
  ELSE IF likes /\ SearchTotalCue(tl) THEN SumAll("likes")
  ELSE IF views /\ SearchTotalCue(tl) THEN SumAll("views")
  ELSE None

\* Lines 243-263, then the rules.  An exception of an extraction leaves
\* parse_with_patterns before any rule is tried.
parse_with_patterns(text) ==
  LET text_lower == Lower(text)
      creator_id == extract_uuid(text)
      threshold == extract_threshold(text)
      single_date == SingleDate(text_lower)
      month_range == MonthRange(text_lower)
  IN IF threshold.st = "raise" THEN Raise
     ELSE IF single_date.st = "raise" THEN Raise
     ELSE IF month_range.st = "raise" THEN Raise
     ELSE Rules(text_lower, creator_id, threshold, single_date, month_range)

(***************************************************************************)
(* The message texts the bot is sent                                       *)
(***************************************************************************)

\* The largest run of spaces between a comparison cue and what follows it.
MaxGap == 2

\* The parts that are not empty, with one space between neighbours.
RECURSIVE JoinSp(_)
JoinSp(parts) ==
  IF parts = <<>> THEN <<>>
  ELSE IF Head(parts) = <<>> THEN JoinSp(Tail(parts))
  ELSE LET rest == JoinSp(Tail(parts))
       IN IF rest = <<>> THEN Head(parts) ELSE Head(parts) \o <<SP>> \o rest

Spaces(n) == [i \in 1..n |-> SP]

QuestionCues ==
  { <<>>, <<W("Skolko")>>, <<W("Na"), SP, W("skolko")>>,
    <<W("Skolko"), SP, W("video")>> }

GrowthCues == { <<>>, <<W("vyrosli")>> }

Creators == { <<>>, <<W("u"), SP, W("kreatora"), SP, HEX32>> }

Periods ==
  { <<>>, <<W("za"), SP, W("iyun")>>, <<W("v"), SP, W("yanvare"), SP, N(2025, 4)>>,
    <<N(28, 2), SP, W("noyabrya"), SP, N(2025, 4)>> }

Thresholds ==
  { <<>>, <<W("nabrali"), SP, W("bolshe"), SP, N(50000, 5)>>,
    <<W("nabrali"), SP, W("bolshe"), SP, N(0, 1)>> }

MetricNouns == { <<>>, <<W("prosmotrov")>>, <<W("laykov")>> }

\* Questions that combine a cue, a creator, a period, a threshold and a metric
CombinedTexts ==
  { JoinSp(<<q, g, c, p, t, m>>) \o <<QM>> :
      q \in QuestionCues, g \in GrowthCues, c \in Creators,
      p \in Periods, t \in Thresholds, m \in MetricNouns }

Days == {0, 1, 15, 28, 29, 30, 31, 32}

DayDigits(d) == IF d < 10 THEN 1 ELSE 2

\* What follows the month name of a single date.
DateTails ==
  { <<>>, <<SP>>, <<QM>>, <<SP, N(2024, 4)>>, <<SP, N(2025, 4), SP, W("goda"), QM>> }

\* Growth questions about one day, and distinct-video questions about some
DateTexts ==
  { JoinSp(<<q, <<W("prosmotrov")>>, <<N(d, DayDigits(d))>>, <<W(Genitive[m])>>>>) \o t :
      q \in { <<W("Na"), SP, W("skolko"), SP, W("vyrosli")>> },
      d \in Days, m \in 1..12, t \in DateTails }
    \cup
  { JoinSp(<<q, <<W("prosmotrov")>>, <<N(d, DayDigits(d))>>, <<W(Genitive[m])>>>>) \o t :
      q \in { <<W("Skolko"), SP, W("raznyh"), SP, W("video")>> },
      d \in {28, 31}, m \in 1..12, t \in DateTails }

\* What follows the month name of a month range.
MonthTails == { <<SP, N(2025, 4), QM>>, <<SP>>, <<QM>> }

\* Questions about a month, in every form the month pattern accepts
MonthTexts ==
  { JoinSp(<<q, <<W("za")>>, <<W(form)>>>>) \o t :
      q \in { <<W("Skolko"), SP, W("prosmotrov")>>, <<W("Skolko"), SP, W("video")>>,
              <<W("Skolko"), SP, W("video"), SP, W("poyavilos")>> },
      form \in RangeMonthForms, t \in MonthTails }
    \cup
  { JoinSp(<<q, <<W("v")>>, <<W(form)>>>>) \o t :
      q \in { <<W("Skolko"), SP, W("laykov")>> },
      form \in RangeMonthForms, t \in MonthTails }

\* What stands between "bolshe" and the metric noun.
ThresholdBodies ==
  { Spaces(n) : n \in 1..MaxGap }
    \cup { Spaces(n) \o <<N(100000, 6), SP>> : n \in 1..MaxGap }
    \cup { <<SP, N(100, 3), SP, N(0, 3), SP>>, <<SP, N(100, 3), TAB, N(0, 3), SP>>,
           <<SP, N(1000, 4)>>, <<TAB, N(7, 1), TAB>>, <<TAB, SP>>, <<SP, N(0, 1), SP>> }

\* Threshold questions in the spellings the threshold pattern reads
ThresholdTexts ==
  { c \o <<W("Skolko"), SP, W("video"), SP, W(cue)>> \o b \o <<W(noun), QM>> :
      c \in { <<>>, <<UUID36, SP>>, <<HEX32, SP, UUID36, SP>> },
      cue \in {"Bolshe", "bolee"}, b \in ThresholdBodies,
      noun \in {"prosmotrov", "laykov", "kommentariev"} }

\* Totals, and texts that ask nothing the bot knows
TotalTexts ==
  { JoinSp(<<q, m>>) \o t :
      q \in { <<>>, <<W("Skolko")>>, <<W("summa")>>, <<W("obshchee")>>,
              <<W("Skolko"), SP, W("vsego"), SP, W("video")>>,
              <<W("Skolko"), TAB, W("vsego"), SP, W("video")>>,
              <<W("Rasskazhi"), SP, W("anekdot")>> },
      m \in { <<>>, <<W("prosmotrov")>>, <<W("laykov")>>, <<W("kommentariev")>>,
              <<W("zhalob")>> },
      t \in { <<>>, <<QM>> } }

\* A text message is never empty.
Texts ==
  (CombinedTexts \cup DateTexts \cup MonthTexts \cup ThresholdTexts \cup TotalTexts)
    \ {<<>>}

(***************************************************************************)
(* parse_with_ai                                                           *)
(***************************************************************************)

\* What the HTTP exchange with the completion service gives: status is how
\* client.post and raise_for_status end; for status "ok", match says whether
\* the content holds \{[^}]*"sql"[^}]*\}, valid whether json.loads accepts the
\* match, and sql is the value of its "sql" member (kind "str", "null", "int").
Response(status, match, valid, kind, sql) ==
  [status |-> status, match |-> match, valid |-> valid, kind |-> kind, sql |-> sql]

NoResponse == Response("none", FALSE, FALSE, "null", "")

AIResponses ==
  { Response("network_error", FALSE, FALSE, "null", ""),
    Response("http_error", FALSE, FALSE, "null", ""),
    Response("timeout", FALSE, FALSE, "null", ""),
    Response("ok", FALSE, FALSE, "null", ""),
    Response("ok", TRUE, FALSE, "null", ""),
    Response("ok", TRUE, TRUE, "null", ""),
    Response("ok", TRUE, TRUE, "int", "5"),
    Response("ok", TRUE, TRUE, "str", ""),
    Response("ok", TRUE, TRUE, "str", "UNKNOWN"),
    Response("ok", TRUE, TRUE, "str", "SELECT COUNT(*) FROM videos"),
    Response("ok", TRUE, TRUE, "str", "DROP TABLE videos") }

\* UsableSql without the comparison with the sentinel "UNKNOWN" of line 189.
UsableSqlNoSentinel(resp) ==
  /\ resp.status = "ok" /\ resp.match /\ resp.valid
  /\ resp.kind = "str" /\ resp.sql # ""

\* Lines 184-191: the value is returned when it is a non-empty string other
\* than "UNKNOWN" (slicing a number raises TypeError, caught at line 193).
UsableSql(resp) ==
  /\ resp.status = "ok" /\ resp.match /\ resp.valid
  /\ resp.kind = "str" /\ resp.sql # "" /\ resp.sql # "UNKNOWN"

\* Lines 152-196: every exception of the exchange and of the parsing is caught.
parse_with_ai(use_ai, resp) ==
  IF ~use_ai THEN None
  ELSE IF UsableSql(resp) THEN RawQuery(resp.sql)
  ELSE None

(***************************************************************************)
(* The bot: state                                                          *)
(***************************************************************************)

VARIABLES
  USE_AI,     \* database.py:23, fixed when the module is loaded
  conn,       \* db.conn: "unset" before post_init, then "open" or "none"
  pc,         \* where handle_message stands: "boot", "idle", "tryai",
              \* "deterministic", "resolved", "done", "crashed"
  text,       \* update.message.text of the message being handled
  aiResp,     \* the response parse_with_ai worked on, until parse_query returns
  sql,        \* what parse_query returned
  aiCalls,    \* requests sent to the completion service for this message
  execCalls,  \* calls of Database.execute_sql for this message
  executed,   \* the argument of that call
  dbFailed,   \* whether fetchval raised in that call
  replies     \* the replies sent for this message, in order

vars == <<USE_AI, conn, pc, text, aiResp, sql, aiCalls, execCalls, executed, dbFailed, replies>>

\* A reply: the help text, str(result), or the error text of line 78.
HelpReply == [kind |-> "help", n |-> 0]

NumberReply(n) == [kind |-> "number", n |-> n]

ErrorReply == [kind |-> "error", n |-> 0]

\* What conn.fetchval(sql) gives for a connection that is open: a value, SQL
\* NULL ("null") or an exception ("raise").
DbOutcomes == {"null", "raise", "value"}

\* The values a query returns in this model.
DbValues == {42}

Init ==
  /\ USE_AI \in BOOLEAN
  /\ conn = "unset"
  /\ pc = "boot"
  /\ text = <<>>
  /\ aiResp = NoResponse
  /\ sql = None
  /\ aiCalls = 0
  /\ execCalls = 0
  /\ executed = None
  /\ dbFailed = FALSE
  /\ replies = <<>>

(***************************************************************************)
(* The bot: operations                                                     *)
(***************************************************************************)

\* bot.py post_init: a failed connect is logged and leaves db.conn None.
PostInit ==
  /\ pc = "boot"
  /\ \E c \in {"open", "none"} : conn' = c
  /\ pc' = "idle"
  /\ UNCHANGED <<USE_AI, text, aiResp, sql, aiCalls, execCalls, executed, dbFailed, replies>>

\* handle_message lines 51-55 and parse_query line 337
Receive ==
  /\ pc = "idle"
  /\ \E t \in Texts : text' = t
  /\ pc' = IF USE_AI THEN "tryai" ELSE "deterministic"
  /\ UNCHANGED <<USE_AI, conn, aiResp, sql, aiCalls, execCalls, executed, dbFailed, replies>>

\* parse_query lines 338-340 with parse_with_ai: one request, no retry
TryAI ==
  /\ pc = "tryai"
  /\ \E resp \in AIResponses :
       /\ aiResp' = resp
       /\ sql' = parse_with_ai(USE_AI, resp)
  /\ aiCalls' = aiCalls + 1
  /\ pc' = IF sql'.tpl # "None" THEN "resolved" ELSE "deterministic"
  /\ UNCHANGED <<USE_AI, conn, text, execCalls, executed, dbFailed, replies>>

\* parse_query line 341.  An exception of parse_with_patterns leaves
\* parse_query and handle_message (line 55 is outside the try block).
Deterministic ==
  /\ pc = "deterministic"
  /\ sql' = parse_with_patterns(text)
  /\ pc' = IF sql'.tpl = "RAISE" THEN "crashed" ELSE "resolved"
  /\ aiResp' = NoResponse
  /\ UNCHANGED <<USE_AI, conn, text, aiCalls, execCalls, executed, dbFailed, replies>>

\* IsUnresolved without the "not sql" test of line 57.
IsUnresolvedSentinelOnly(q) == q.tpl = "RAW" /\ q.raw = "UNKNOWN"

\* handle_message line 57
IsUnresolved(q) == q.tpl = "None" \/ (q.tpl = "RAW" /\ q.raw = "UNKNOWN")

\* handle_message lines 57-66
ReplyHelp ==
  /\ pc = "resolved"
  /\ IsUnresolved(sql)
  /\ replies' = Append(replies, HelpReply)
  /\ pc' = "done"
  /\ UNCHANGED <<USE_AI, conn, text, aiResp, sql, aiCalls, execCalls, executed, dbFailed>>

\* Database.execute_sql lines 365-372: the value, 0 for NULL, and -1 for
\* every exception (with db.conn None, None.fetchval raises AttributeError).
ExecuteSqlResult(c, outcome, value) ==
  IF c # "open" THEN -1
  ELSE IF outcome = "raise" THEN -1
  ELSE IF outcome = "null" THEN 0
  ELSE value

\* handle_message lines 68-78: execute_sql, then reply_text(str(result)); when
\* that reply_text raises, line 78 replies with the error text.
ExecuteAndReply ==
  /\ pc = "resolved"
  /\ ~IsUnresolved(sql)
  /\ \E outcome \in DbOutcomes, value \in DbValues, sent \in BOOLEAN :
       /\ dbFailed' = (conn # "open" \/ outcome = "raise")
       /\ replies' =
            IF sent
              THEN Append(replies, NumberReply(ExecuteSqlResult(conn, outcome, value)))
              ELSE Append(replies, ErrorReply)
  /\ execCalls' = execCalls + 1
  /\ executed' = sql
  /\ pc' = "done"
  /\ UNCHANGED <<USE_AI, conn, text, aiResp, sql, aiCalls>>

\* bot.py error_handler lines 107-109: the exception is logged, nothing is sent.
ErrorHandler ==
  /\ pc = "crashed"
  /\ pc' = "done"
  /\ UNCHANGED <<USE_AI, conn, text, aiResp, sql, aiCalls, execCalls, executed, dbFailed, replies>>

\* The handler has returned and its locals are gone; the application waits
\* for the next update.  Only the configuration and db.conn outlive a message.
NextUpdate ==
  /\ pc = "done"
  /\ pc' = "idle"
  /\ text' = <<>>
  /\ aiResp' = NoResponse
  /\ sql' = None
  /\ aiCalls' = 0
  /\ execCalls' = 0
  /\ executed' = None
  /\ dbFailed' = FALSE
  /\ replies' = <<>>
  /\ UNCHANGED <<USE_AI, conn>>

Next ==
  \/ PostInit
  \/ Receive
  \/ TryAI
  \/ Deterministic
  \/ ReplyHelp
  \/ ExecuteAndReply
  \/ ErrorHandler
  \/ NextUpdate

Spec == Init /\ [][Next]_vars

(***************************************************************************)
(* Properties                                                              *)
(***************************************************************************)

\* parse_with_patterns has run on the message: its result, or its exception,
\* is what sql holds.
Classified == pc \in {"resolved", "crashed", "done"} /\ sql.tpl # "RAW"

HasViewsOrLikes(tl) == Search(tl, "prosmotr") \/ Search(tl, "layk")

\* The metric the rules read from the text: views before likes.
MetricOf(tl) == IF Search(tl, "prosmotr") THEN "views" ELSE "likes"

\* C1: a text with a creator identifier, a month range and a (positive)
\* threshold on views or likes resolves to the creator + date range +
\* threshold count, which keeps the date filter of that month.
C1_DateFilterKept ==
  LET tl == Lower(text)
      r == MonthRange(tl)
      n == extract_threshold(text)
  IN (/\ Classified
      /\ extract_uuid(text) # NoId
      /\ r.st = "ok"
      /\ n.st = "ok" /\ n.v > 0
      /\ SingleDate(tl).st = "none"
      /\ HasViewsOrLikes(tl))
     => sql = CountCreatorDateThreshold(extract_uuid(text), r, MetricOf(tl), n.v)

\* "na skolko" stands in the text.
SearchNaSkolko(tl) ==
  \E i \in DOMAIN tl :
    /\ i + 2 <= Len(tl)
    /\ tl[i] = W("na") /\ tl[i + 1] = SP /\ tl[i + 2] = W("skolko")

\* C2: a text with a growth cue ("vyros" or "na skolko"), the views noun and
\* a total cue never resolves to the grand total of views over all videos.
C2_GrowthNeverGrandTotal ==
  LET tl == Lower(text)
  IN (/\ Classified
      /\ Search(tl, "vyros") \/ SearchNaSkolko(tl)
      /\ Search(tl, "prosmotr")
      /\ SearchTotalCue(tl))
     => sql # SumAll("views")

\* C3: a text with a creator identifier and a threshold on views or likes
\* and no date resolves to the creator-scoped threshold count.
C3_CreatorThresholdScoped ==
  LET tl == Lower(text)
      n == extract_threshold(text)
  IN (/\ Classified
      /\ extract_uuid(text) # NoId
      /\ n.st = "ok"
      /\ SingleDate(tl).st = "none"
      /\ MonthRange(tl).st = "none"
      /\ HasViewsOrLikes(tl))
     => sql = CountCreatorThreshold(extract_uuid(text), MetricOf(tl), n.v)

\* The AI results the claim lists as not usable: the request failed or timed
\* out, the content holds no parsable JSON object, the sql member is empty or
\* is the sentinel "UNKNOWN".
NoUsableAIResult(resp) ==
  \/ resp.status \in {"network_error", "http_error", "timeout"}
  \/ ~resp.match
  \/ ~resp.valid
  \/ resp.kind = "str" /\ resp.sql \in {"", "UNKNOWN"}

\* C4: when the AI path yields no usable result, it ends without an
\* exception after one request and parse_query goes on to the deterministic
\* classifier, whose result on the same text is the result of parse_query;
\* the request is never repeated.  Without AI configured no request is made.
C4_AIFallback ==
  [][ /\ (pc = "tryai" /\ NoUsableAIResult(aiResp'))
         => (pc' = "deterministic" /\ sql' = None /\ aiCalls' = 1 /\ text' = text)
      /\ (pc = "deterministic")
         => (/\ sql' = parse_with_patterns(text)
             /\ pc' \in {"resolved", "crashed"}
             /\ aiCalls' = aiCalls
             /\ aiCalls' = IF USE_AI THEN 1 ELSE 0) ]_vars

\* C4 witness: a threshold question was resolved by the classifier after
\* one AI request that gave nothing usable.
C4_Witness ==
  /\ pc = "resolved" /\ USE_AI /\ aiCalls = 1
  /\ sql = CountThreshold("views", 100000)

\* C5: what execute_sql is given is always built from the templates of the
\* deterministic classifier, never a string taken from the AI response.
C5_NoRawAIQueryExecuted == execCalls > 0 => executed.tpl # "RAW"

\* C6: when the database call failed, the reply is the explicit error
\* message, not a number and not the help text.
C6_FailureRepliesError == (pc = "done" /\ dbFailed) => replies = <<ErrorReply>>

\* C7: a message whose resolution is unresolved (parse_query returned
\* nothing or "UNKNOWN") is answered with the help text, and execute_sql is
\* not called for it.
C7_UnresolvedGetsHelp ==
  (/\ pc \in {"resolved", "done"}
   /\ sql.tpl = "None" \/ (sql.tpl = "RAW" /\ sql.raw = "UNKNOWN"))
  => /\ execCalls = 0
     /\ executed = None
     /\ replies = IF pc = "done" THEN <<HelpReply>> ELSE <<>>

\* C7 witness: "Rasskazhi anekdot" was answered with the help text.
C7_Witness ==
  /\ pc = "done"
  /\ text = <<W("Rasskazhi"), SP, W("anekdot")>>
  /\ sql = None
  /\ replies = <<HelpReply>>
  /\ execCalls = 0

\* C8: extraction and classification never raise.
C8_ClassificationTotal == pc # "crashed" /\ sql.tpl # "RAISE"

\* The calendar day after year-month-day.
NextDay(y, m, d) ==
  IF d < DaysInMonth(y, m) THEN <<y, m, d + 1>>
  ELSE IF m < 12 THEN <<y, m + 1, 1>>
  ELSE <<y + 1, 1, 1>>

\* C9: a valid calendar date written "<day> <month name> <year>" is
\* extracted as the interval from that day to the next calendar day.
C9_SingleDateNextDay ==
  LET tl == Lower(text)
      hits == {m \in DOMAIN tl : DateMatchAt(tl, m)}
  IN (Classified /\ hits # {})
     => LET m == Min(hits)
            q == NextNonWs(tl, m + 1)
            day == tl[PrevNonWs(tl, m - 1)].v
            month == CHOOSE k \in 1..12 : Genitive[k] = tl[m].s
        IN (/\ q <= Len(tl) /\ tl[q].k = "num" /\ tl[q].d = 4
            /\ ValidDate(tl[q].v, month, day))
           => SingleDate(tl) = [st |-> "ok", from |-> <<tl[q].v, month, day>>,
                                to |-> NextDay(tl[q].v, month, day)]

\* C10: every form of a month name that the month-range pattern accepts
\* resolves to that month of the year read (2025 by default) and gives the
\* interval from the 1st of the month to the 1st of the next month.
C10_EveryMonthFormResolves ==
  LET tl == Lower(text)
      hits == {m \in DOMAIN tl : RangeMatchAt(tl, m)}
  IN (Classified /\ hits # {})
     => LET m == Min(hits)
            year == YearAfter(tl, m)
            month == CHOOSE k \in 1..12 :
                       tl[m].s \in {Genitive[k], Nominative[k], Prepositional[k]}
        IN MonthRange(tl) = [st |-> "ok", from |-> <<year, month, 1>>,
                             to |-> NextDay(year, month, DaysInMonth(year, month))]

\* "<day> <month name>" is written with the month name at token m and no
\* year after it, whatever follows the month name (nothing, punctuation,
\* whitespace, a word).
YearlessDateAt(tl, m) ==
  /\ tl[m].k = "word" /\ tl[m].s \in DateMonthForms
  /\ m - 1 >= 1 /\ IsWs(tl[m - 1])
  /\ LET p == PrevNonWs(tl, m - 1) IN p >= 1 /\ tl[p].k = "num" /\ tl[p].d <= 2
  /\ LET q == NextNonWs(tl, m + 1) IN ~(q <= Len(tl) /\ tl[q].k = "num")

\* C11: a growth or distinct-videos question about views with a date written
\* without a year, wherever the date stands, resolves to the snapshot query
\* filtered to that day of the default year 2025.
C11_YearlessDateRecognized ==
  LET tl == Lower(text)
      hits == {m \in DOMAIN tl : YearlessDateAt(tl, m)}
  IN (/\ Classified
      /\ hits # {}
      /\ Search(tl, "prosmotr")
      /\ SearchGrowthCue(tl) \/ SearchDistinctVideos(tl))
     => LET m == Min(hits)
            day == tl[PrevNonWs(tl, m - 1)].v
            month == CHOOSE k \in 1..12 : Genitive[k] = tl[m].s
            d == [from |-> <<DefaultYear, month, day>>,
                  to |-> <<DefaultYear, month, day + 1>>]
        IN (ValidDate(DefaultYear, month, day) /\ ValidDate(DefaultYear, month, day + 1))
           => sql = IF SearchGrowthCue(tl) THEN DeltaSum("views", d)
                    ELSE DistinctDelta("views", d)

\* re.search(r"skolko.*video", text_lower) of the claim's cue "skolko ... video"
SearchHowManyVideos(tl) ==
  \E i \in DOMAIN tl :
    /\ HasStemAt(tl, i, "skolko")
    /\ \E j \in (i + 1)..Len(tl) : HasStemAt(tl, j, "video")

MetricStems == {"prosmotr", "layk", "komment", "zhalob"}

\* The count of the videos published in the half-open range r
CountDate(r) == Query("COUNT(*) FROM videos WHERE range", NoId, r.from, r.to, "", 0)

\* C12: a text with a month range the month table knows, no creator
\* identifier, no metric noun, no threshold and no single date that asks
\* "skolko ... video" resolves to the count of the videos published in the
\* month's half-open range.
C12_MonthVideoCount ==
  LET tl == Lower(text)
      r == MonthRange(tl)
  IN (/\ Classified
      /\ extract_uuid(text) = NoId
      /\ r.st = "ok"
      /\ SingleDate(tl).st = "none"
      /\ extract_threshold(text).st = "none"
      /\ SearchHowManyVideos(tl)
      /\ \A st \in MetricStems : ~Search(tl, st))
     => sql = CountDate(r)

MetricName(stem) ==
  CASE stem = "prosmotr" -> "views"
    [] stem = "layk" -> "likes"
    [] stem = "komment" -> "comments"
    [] stem = "zhalob" -> "reports"

\* C13: a text with the noun of exactly one of the four metrics and a total
\* cue, with no creator, single date, month range, threshold or growth cue,
\* resolves to the total of that metric over all videos.
C13_TotalOfEveryMetric ==
  LET tl == Lower(text)
      named == {st \in MetricStems : Search(tl, st)}
  IN (/\ Classified
      /\ Cardinality(named) = 1
      /\ SearchTotalCue(tl)
      /\ ~SearchTotalVideos(tl)
      /\ ~SearchGrowthCue(tl)
      /\ extract_uuid(text) = NoId
      /\ SingleDate(tl).st = "none"
      /\ MonthRange(tl).st = "none"
      /\ extract_threshold(text).st = "none")
     => sql = SumAll(MetricName(CHOOSE st \in named : TRUE))

\* C14: when the handling of a text message has ended, the message has
\* received exactly one reply: a number, the help text or the error message.
C14_ExactlyOneReply ==
  pc = "done" =>
    /\ Len(replies) = 1
    /\ replies[1].kind \in {"number", "help", "error"}

====
